---- MODULE Spec2Model ----
(***************************************************************************)
(* Upbit price alerts (app.py): the registration endpoint /api/track and   *)
(* the background poller with its edge-triggered last_alert table and the  *)
(* rate-limit aware Discord sender.                                        *)
(*                                                                         *)
(* Prices, reference prices and thresholds are integers; the percentage    *)
(* comparisons of the poller are made by cross-multiplication, which is    *)
(* exact because the poller only classifies when avg > 0.  Durations are   *)
(* counted in tenths of a second.                                          *)
(***************************************************************************)
EXTENDS Integers, Sequences, FiniteSets, TLC

----------------------------------------------------------------------------
(* Bounds and input alphabets *)

\* most 429 responses of a single send_discord_message call that posts holds
MaxRateLimited == 2

\* length of the per-key window of tick outcomes kept for watched keys
HistLen == 3

\* CHUNK of fetch_tickers
CHUNK == 30

\* the constant added to retry_after before sleeping, in tenths of a second
RETRY_PAD == 1

\* default of data.get("retry_after", 1.0), in seconds
RETRY_DEFAULT == 1

NoMarket == ""
\* the markets trackers are registered and classified for
Markets == {"KRW-BTC", "KRW-ETH"}
\* every market a row of the trackers table may name, in the order sorted()
\* gives: more than one CHUNK of them
MarketOrder ==
  <<"KRW-AAVE", "KRW-ADA", "KRW-ALGO", "KRW-ANKR", "KRW-APT", "KRW-ARB",
    "KRW-ATOM", "KRW-AVAX", "KRW-AXS", "KRW-BAT", "KRW-BCH", "KRW-BTC",
    "KRW-BTT", "KRW-CHZ", "KRW-CRO", "KRW-DOGE", "KRW-DOT", "KRW-EGLD",
    "KRW-EOS", "KRW-ETC", "KRW-ETH", "KRW-FLOW", "KRW-GRT", "KRW-HBAR",
    "KRW-ICX", "KRW-IMX", "KRW-KNC", "KRW-LINK", "KRW-MANA", "KRW-NEAR",
    "KRW-XRP">>

\* a posted channel id is its text, with its length and whether every
\* character is a digit
Chans == {"100000000000000001"}

Keys == Markets \X Chans

\* bodies a client may post to /api/track: for either market a request with a
\* usable reference price, for one a second with a lower reference price and
\* narrower thresholds, for the other one with a zero reference price, and one
\* request for each way of being refused
GoodChan == [text |-> "100000000000000001", len |-> 18, digits |-> TRUE]
BadChan == [text |-> "general", len |-> 7, digits |-> FALSE]
TrackIn(m, a, u, d, c) ==
  [market |-> m, avg_price |-> a, up_threshold |-> u, down_threshold |-> d,
   channel_id |-> c]
TrackInputs ==
  { TrackIn("btc", 100, 5, -5, GoodChan), TrackIn("btc", 95, 4, -4, GoodChan),
    TrackIn("KRW-ETH", 100, 5, -5, GoodChan), TrackIn("KRW-ETH", 0, 5, -5, GoodChan) }
  \cup { TrackIn("", 100, 5, -5, GoodChan), TrackIn("x", 100, 5, -5, GoodChan),
         TrackIn("btc", 100, 0, -5, GoodChan), TrackIn("btc", 100, 5, 0, GoodChan),
         TrackIn("btc", 100, 5, -5, BadChan) }

\* trade_price values of a ticker item; 0 also stands for an absent or null one
Prices == {0, 95, 100, 105}

\* retry_after values of a 429 body, in seconds; -1: the field is absent
RetryAfters == {-1, 2}

States == {"above", "below"}
NoState == "none"

----------------------------------------------------------------------------
VARIABLES
  DISCORD_TOKEN,  \* whether the bot token is set in the environment
  trackers,       \* table trackers, in rowid order
  last_alert,     \* table last_alert: key -> last_state, or NoState for no row
  pc,             \* where the poller task is
  rows,           \* poller: rows loaded by this tick
  out,            \* fetch_tickers: quotes gathered so far
  chunk_i,        \* fetch_tickers: loop index i (0-based, as in the code)
  tick,           \* poller: quotes of this tick: market -> trade_price
  idx,            \* poller: position of the for loop in rows (1-based)
  cur,            \* poller: [key, st] of the tracker being notified
  send,           \* send_discord_message: [channel_id, payload] of the call
  wait,           \* send_discord_message: the pending sleep, in tenths
  \* history
  clock,          \* time slept inside the current send call, in tenths
  posts,          \* POSTs of the current send call: [chan, payload, resp, ra, at]
  more,           \* the current send call got 429 responses that posts left out
  last,           \* the poller's most recent send or store event
  before,         \* last_alert as it was when this tick began
  cls,            \* key -> classification this tick's decision used
  calls,          \* key -> send_discord_message calls made in this tick
  result,         \* key -> outcome of this tick's send for the key
  faults,         \* failures of this tick: [kind, key]
  gets,           \* GET requests of this tick's fetch: [i, ok], in order
  watch,          \* keys whose history across ticks is recorded
  lastDelivered,  \* watched key -> state of the latest delivered notification
  hist,           \* watched key -> window of its latest tick outcomes
  accepted        \* key -> values of the latest registration accepted for it,
                  \*        and, for WatchedKey, the last_state it had then

vars == <<DISCORD_TOKEN, trackers, last_alert, pc, rows, out, chunk_i, tick,
          idx, cur, send, wait, clock, posts, more, last, before, cls, calls,
          result, faults, gets, lastDelivered, watch, accepted, hist>>

pollerVars == <<pc, rows, out, chunk_i, tick, idx, cur, send, wait>>
sendHist == <<clock, posts, more>>
tickHist == <<before, cls, calls, result, faults, gets>>

----------------------------------------------------------------------------
(* Helpers *)

KeyOf(r) == <<r.market, r.chan>>

Min(a, b) == IF a < b THEN a ELSE b

NoKey == <<"", "">>
NoEvent == [kind |-> "none", key |-> NoKey, st |-> NoState]
NoCur == [key |-> NoKey, st |-> NoState]
NoSend == [channel_id |-> "", payload |-> <<>>]
EmptyMap == [m \in {} |-> 0]

\* normalize_market on the strings of RawMarkets: strip and upper-case, then a
\* bare 2..10 character symbol gets the KRW- prefix, a QUOTE-BASE pair is kept,
\* anything else (the empty string, a single character) is refused
normalize_market(s) ==
  CASE s = "" -> NoMarket
    [] s = "x" -> NoMarket
    [] s = "btc" -> "KRW-BTC"
    [] s = "KRW-ETH" -> "KRW-ETH"
    [] OTHER -> NoMarket

\* re.fullmatch(r"\d{15,25}", channel_id)
channel_ok(c) == c.digits /\ c.len >= 15 /\ c.len <= 25

\* st of the poller: pct = (price-avg)/avg*100 against the thresholds, avg > 0
Classify(price, avg, up_th, down_th) ==
  IF (price - avg) * 100 >= up_th * avg THEN "above"
  ELSE IF (price - avg) * 100 <= down_th * avg THEN "below"
  ELSE "neutral"

\* a level-triggered decision: notify whenever the tracker is out of band
ShouldNotifyLevel(st, prev) == st \in States

\* a decision on any change of classification, neutral included
ShouldNotifyOnChange(st, prev) == prev # st

\* should of the poller; prev is the last_state read, or NoState for no row
ShouldNotify(st, prev) ==
  st \in States /\ (prev = NoState \/ prev # st)

\* emb of the poller: title and colour depend on market and st, the
\* description on price, avg (and the pct they give) and the thresholds
Embed(market, price, avg, up_th, down_th, st) ==
  [ title |-> <<st, market>>,
    description |-> <<price, avg, up_th, down_th>>,
    color |-> IF st = "above" THEN "22c55e" ELSE "ef4444" ]

\* markets = sorted({r[0] for r in rows})
SortedMarkets(rs) ==
  SelectSeq(MarketOrder, LAMBDA m : \E j \in 1..Len(rs) : rs[j].market = m)

\* an insert that leaves an existing row of the key as it is
UpsertTrackerDoNothing(tbl, r) ==
  IF \E j \in 1..Len(tbl) : KeyOf(tbl[j]) = KeyOf(r) THEN tbl ELSE Append(tbl, r)

\* the ON CONFLICT(market, channel_id) DO UPDATE upsert of /api/track
UpsertTracker(tbl, r) ==
  IF \E j \in 1..Len(tbl) : KeyOf(tbl[j]) = KeyOf(r)
  THEN [ j \in 1..Len(tbl) |->
           IF KeyOf(tbl[j]) = KeyOf(r)
           THEN [tbl[j] EXCEPT !.avg = r.avg, !.up = r.up, !.down = r.down]
           ELSE tbl[j] ]
  ELSE Append(tbl, r)

\* the ON CONFLICT(market, channel_id) DO UPDATE upsert of last_alert
UpsertState(tbl, key, st) == [tbl EXCEPT ![key] = st]

\* the body's retry_after is not read: always the default wait
SleepForDefault(ra) == RETRY_DEFAULT * 10 + RETRY_PAD

\* float(wait) + 0.1 in tenths of a second
SleepFor(ra) == (IF ra = -1 THEN RETRY_DEFAULT ELSE ra) * 10 + RETRY_PAD

----------------------------------------------------------------------------
(* Initial states *)

NoneYet == [k \in Keys |-> "none"]

\* what the latest accepted registrations were, for a table tbl that is given
NoReg == [avg |-> -1, up |-> 0, down |-> 0, had |-> NoState]
Registered(tbl) ==
  [ k \in Keys |->
      IF \E j \in 1..Len(tbl) : KeyOf(tbl[j]) = k
      THEN LET r == tbl[CHOOSE j \in 1..Len(tbl) : KeyOf(tbl[j]) = k]
           IN [avg |-> r.avg, up |-> r.up, down |-> r.down, had |-> NoState]
      ELSE NoReg ]

InitCommon ==
  /\ last_alert = [k \in Keys |-> NoState]
  /\ pc = "start"
  /\ rows = <<>>
  /\ out = EmptyMap
  /\ chunk_i = 0
  /\ tick = EmptyMap
  /\ idx = 1
  /\ cur = NoCur
  /\ send = NoSend
  /\ wait = 0
  /\ clock = 0
  /\ posts = <<>>
  /\ more = FALSE
  /\ last = NoEvent
  /\ before = [k \in Keys |-> NoState]
  /\ cls = NoneYet
  /\ calls = [k \in Keys |-> 0]
  /\ result = NoneYet
  /\ faults = {}
  /\ gets = <<>>

\* a fresh database (init_db creates both tables empty)
Init ==
  /\ InitCommon
  /\ DISCORD_TOKEN \in BOOLEAN
  /\ trackers = <<>>
  /\ accepted = Registered(trackers)
  /\ watch = {}
  /\ lastDelivered = [k \in watch |-> NoState]
  /\ hist = [k \in watch |-> <<>>]

\* a database that already holds one tracker, whose history is recorded
WatchedKey == <<"KRW-BTC", "100000000000000001">>
WatchedRow == [market |-> "KRW-BTC", avg |-> 100, up |-> 5, down |-> -5,
               chan |-> "100000000000000001"]
InitTrace ==
  /\ InitCommon
  /\ DISCORD_TOKEN = TRUE
  /\ trackers = <<WatchedRow>>
  /\ accepted = Registered(trackers)
  /\ watch = {WatchedKey}
  /\ lastDelivered = [k \in watch |-> NoState]
  /\ hist = [k \in watch |-> <<>>]

\* a database that holds two trackers, for the poller running on its own
OtherRow == [market |-> "KRW-ETH", avg |-> 100, up |-> 5, down |-> -5,
             chan |-> "100000000000000001"]
InitLive ==
  /\ InitCommon
  /\ DISCORD_TOKEN = TRUE
  /\ trackers = <<WatchedRow, OtherRow>>
  /\ accepted = Registered(trackers)
  /\ watch = {}
  /\ lastDelivered = [k \in watch |-> NoState]
  /\ hist = [k \in watch |-> <<>>]

\* a database that holds a tracker for every market of MarketOrder, so that
\* the fetch of a tick takes two chunks; only the KRW-BTC tracker has a
\* reference price, the others were registered with avg_price 0
ManyRows ==
  [ j \in 1..Len(MarketOrder) |->
      [market |-> MarketOrder[j],
       avg |-> IF MarketOrder[j] = "KRW-BTC" THEN 100 ELSE 0,
       up |-> 5, down |-> -5, chan |-> "100000000000000001"] ]
InitChunks ==
  /\ InitCommon
  /\ DISCORD_TOKEN = TRUE
  /\ trackers = ManyRows
  /\ accepted = Registered(trackers)
  /\ watch = {}
  /\ lastDelivered = [k \in watch |-> NoState]
  /\ hist = [k \in watch |-> <<>>]

----------------------------------------------------------------------------
(* POST /api/track *)

\* the last_state a key has as a registration for it is accepted; it is kept
\* on record for WatchedKey
HadThen(k) == IF k = WatchedKey THEN last_alert[k] ELSE NoState

TrackAccepts(m, up_threshold, down_threshold, channel_id) ==
  /\ DISCORD_TOKEN
  /\ m # NoMarket
  /\ ~(up_threshold <= 0 \/ down_threshold >= 0)
  /\ channel_ok(channel_id)

\* a registration that also forgets the alert state of the key it upserts
trackClearsAlert(t, dbok) ==
  LET m == normalize_market(t.market)
      r == [market |-> m, avg |-> t.avg_price, up |-> t.up_threshold,
            down |-> t.down_threshold, chan |-> t.channel_id.text]
      done == TrackAccepts(m, t.up_threshold, t.down_threshold, t.channel_id) /\ dbok
  IN /\ trackers' = IF done THEN UpsertTracker(trackers, r) ELSE trackers
     /\ last_alert' = IF done
                      THEN [last_alert EXCEPT ![KeyOf(r)] = NoState]
                      ELSE last_alert
     /\ accepted' = IF done
                    THEN [accepted EXCEPT ![KeyOf(r)] =
                            [avg |-> r.avg, up |-> r.up, down |-> r.down,
                             had |-> HadThen(KeyOf(r))]]
                    ELSE accepted
     /\ UNCHANGED <<DISCORD_TOKEN, pollerVars, sendHist, last, tickHist,
                    lastDelivered, watch, hist>>

\* a registration that changes the values of a tracker also forgets the alert
\* state of its key
trackRearms(t, dbok) ==
  LET m == normalize_market(t.market)
      r == [market |-> m, avg |-> t.avg_price, up |-> t.up_threshold,
            down |-> t.down_threshold, chan |-> t.channel_id.text]
      done == TrackAccepts(m, t.up_threshold, t.down_threshold, t.channel_id) /\ dbok
      new == UpsertTracker(trackers, r)
  IN /\ trackers' = IF done THEN new ELSE trackers
     /\ last_alert' = IF done /\ trackers # <<>> /\ new # trackers
                      THEN [last_alert EXCEPT ![KeyOf(r)] = NoState]
                      ELSE last_alert
     /\ accepted' = IF done
                    THEN [accepted EXCEPT ![KeyOf(r)] =
                            [avg |-> r.avg, up |-> r.up, down |-> r.down,
                             had |-> HadThen(KeyOf(r))]]
                    ELSE accepted
     /\ UNCHANGED <<DISCORD_TOKEN, pollerVars, sendHist, last, tickHist,
                    lastDelivered, watch, hist>>

\* t is the posted body; dbok: the INSERT and its commit do not raise
track(t, dbok) ==
  LET m == normalize_market(t.market)
      r == [market |-> m, avg |-> t.avg_price, up |-> t.up_threshold,
            down |-> t.down_threshold, chan |-> t.channel_id.text]
      done == TrackAccepts(m, t.up_threshold, t.down_threshold, t.channel_id) /\ dbok
  IN /\ trackers' = IF done THEN UpsertTracker(trackers, r) ELSE trackers
     /\ accepted' = IF done
                    THEN [accepted EXCEPT ![KeyOf(r)] =
                            [avg |-> r.avg, up |-> r.up, down |-> r.down,
                             had |-> HadThen(KeyOf(r))]]
                    ELSE accepted
     /\ UNCHANGED <<DISCORD_TOKEN, last_alert, pollerVars, sendHist, last,
                    tickHist, lastDelivered, watch, hist>>

----------------------------------------------------------------------------
(* poller *)

Fault(kind, key) == [kind |-> kind, key |-> key]

\* the outcome of a finished tick for a watched key: its classification, the
\* last_state before and after the tick, and what became of its send
Outcome(k) ==
  [cls |-> cls[k], prev |-> before[k], result |-> result[k], state |-> last_alert[k]]

Window(h) == IF Len(h) > HistLen THEN SubSeq(h, Len(h) - HistLen + 1, Len(h)) ELSE h

\* no handler around the body of the loop: the exception ends the task
OuterExceptMissing == "dead"

\* the handler prints and leaves the loop
OuterExceptBreaks == "dead"

\* except Exception around the body of the loop: print, then the interval sleep
OuterExcept == "sleep"

\* the tick is over: normally (fault is "none": the for loop is exhausted, or
\* the table is empty) or through the outer except; either way the poller is
\* at asyncio.sleep(POLL_INTERVAL).  No step that ends a tick writes last_alert.
EndTick(fault) ==
  /\ pc' = IF fault = "none" THEN "sleep" ELSE OuterExcept
  /\ faults' = IF fault = "none" THEN faults ELSE faults \cup {Fault(fault, NoKey)}
  /\ gets' = IF fault = "fetch"
             THEN Append(gets, [i |-> chunk_i, ok |-> FALSE])
             ELSE gets
  /\ hist' = [k \in watch |-> Window(Append(hist[k], Outcome(k)))]
  /\ UNCHANGED <<rows, out, chunk_i, tick, idx, cur, send, wait, sendHist, last,
                 before, cls, calls, result>>

\* await init_db(); await asyncio.sleep(1): outside the loop's try
PollerStart(ok) ==
  /\ pc = "start"
  /\ pc' = IF ok THEN "load" ELSE "dead"
  /\ UNCHANGED <<DISCORD_TOKEN, trackers, last_alert, rows, out, chunk_i, tick,
                 idx, cur, send, wait, sendHist, last, tickHist, lastDelivered,
                 watch, accepted, hist>>

\* top of the loop: SELECT ... FROM trackers, and the empty-table shortcut
LoadRows(ok) ==
  /\ pc = "load"
  /\ IF ~ok
     THEN EndTick("load")
     ELSE IF trackers = <<>>
          THEN EndTick("none")
          ELSE /\ pc' = "fetch"
               /\ rows' = trackers
               /\ out' = EmptyMap
               /\ chunk_i' = 0
               /\ UNCHANGED <<tick, idx, cur, send, wait, hist, sendHist, last,
                              tickHist>>
  /\ UNCHANGED <<DISCORD_TOKEN, trackers, last_alert, lastDelivered, watch, accepted>>

\* part = markets[i:i+CHUNK]
Part(markets, i) == SubSeq(markets, i + 1, Min(i + CHUNK, Len(markets)))

\* out[m] = item for every item of the response
Merge(acc, data) ==
  [m \in DOMAIN acc \cup DOMAIN data |-> IF m \in DOMAIN data THEN data[m] ELSE acc[m]]

\* bodies of a ticker response to a request for the markets asked: items for
\* some of them, each with a trade_price; for a request of many markets, one
\* price for all of them or no item at all
Replies(asked) ==
  IF Cardinality(asked) <= Cardinality(Markets)
  THEN UNION { [got -> Prices] : got \in SUBSET asked }
  ELSE { [m \in asked |-> p] : p \in Prices } \cup {EmptyMap}

\* one pass of the chunk loop of fetch_tickers: the GET either raises (network
\* error, raise_for_status) or answers with items for some of the markets asked
FetchChunk ==
  /\ pc = "fetch"
  /\ LET markets == SortedMarkets(rows)
         part == Part(markets, chunk_i)
         asked == { part[j] : j \in 1..Len(part) }
     IN \/ EndTick("fetch")
        \/ \E data \in Replies(asked) :
             /\ IF chunk_i + CHUNK < Len(markets)
                THEN /\ out' = Merge(out, data)
                     /\ chunk_i' = chunk_i + CHUNK
                     /\ UNCHANGED <<pc, rows, tick, idx, cur, send, wait, hist>>
                ELSE /\ tick' = Merge(out, data)
                     /\ out' = EmptyMap
                     /\ chunk_i' = 0
                     /\ idx' = 1
                     /\ pc' = "eval"
                     /\ UNCHANGED <<rows, cur, send, wait, hist>>
             /\ gets' = Append(gets, [i |-> chunk_i, ok |-> TRUE])
             /\ UNCHANGED <<sendHist, last, before, cls, calls, result, faults>>
  /\ UNCHANGED <<DISCORD_TOKEN, trackers, last_alert, lastDelivered, watch, accepted>>

\* the guard without its test of the reference price
UsableWhateverAvg(r, quotes) ==
  /\ r.market \in DOMAIN quotes
  /\ ~(quotes[r.market] <= 0)

\* the quote and reference price let the tracker be classified
Usable(r, quotes) ==
  /\ r.market \in DOMAIN quotes
  /\ ~(quotes[r.market] <= 0 \/ r.avg <= 0)

\* body of the for loop up to the call of send_discord_message; readok: the
\* SELECT of last_state does not raise
Evaluate(readok) ==
  /\ pc = "eval"
  /\ idx <= Len(rows)
  /\ LET r == rows[idx]
         key == KeyOf(r)
     IN IF ~Usable(r, tick)
        THEN /\ idx' = idx + 1
             /\ UNCHANGED <<pc, rows, out, chunk_i, tick, cur, send, wait, hist,
                            sendHist, last, tickHist>>
        ELSE LET price == tick[r.market]
                 st == Classify(price, r.avg, r.up, r.down)
             IN IF ~readok
                THEN EndTick("read")
                ELSE /\ cls' = [cls EXCEPT ![key] = st]
                     /\ UNCHANGED <<faults, gets, last, before, result>>
                     /\ IF ShouldNotify(st, last_alert[key])
                        THEN /\ cur' = [key |-> key, st |-> st]
                             /\ send' = [channel_id |-> r.chan,
                                         payload |-> [embeds |->
                                           <<Embed(r.market, price, r.avg, r.up, r.down, st)>>]]
                             /\ calls' = [calls EXCEPT ![key] = @ + 1]
                             /\ pc' = "post"
                             /\ clock' = 0
                             /\ posts' = <<>>
                             /\ more' = FALSE
                             /\ UNCHANGED <<rows, out, chunk_i, tick, idx, wait, hist>>
                        ELSE /\ idx' = idx + 1
                             /\ UNCHANGED <<pc, rows, out, chunk_i, tick, cur, send,
                                            wait, hist, calls, sendHist>>
  /\ UNCHANGED <<DISCORD_TOKEN, trackers, last_alert, lastDelivered, watch, accepted>>

\* the key and state a posted message speaks of
Notified(s) == [key |-> <<s.payload.embeds[1].title[2], s.channel_id>>,
                st |-> s.payload.embeds[1].title[1]]

\* a send that raises is not caught per tracker: it ends the tick
AfterPostAborts(resp) ==
  CASE resp = "ok" -> "write"
    [] resp = "rate" -> "backoff"
    [] OTHER -> "sleep"

\* the write is reached whether or not the send raised
AfterPostWritesAnyway(resp) ==
  CASE resp = "rate" -> "backoff"
    [] OTHER -> "write"

\* a 429 is not waited for: the tick goes to its interval sleep with the
\* retry still pending
AfterPostLeavesRetryPending(resp) ==
  CASE resp = "ok" -> "write"
    [] resp = "rate" -> "sleep"
    [] OTHER -> "eval"

\* where send_discord_message and the try around it go after a response: on to
\* the INSERT, into the 429 sleep, or through except to the next tracker
AfterPost(resp) ==
  CASE resp = "ok" -> "write"
    [] resp = "rate" -> "backoff"
    [] OTHER -> "eval"

RateLimited(ps) == Len(SelectSeq(ps, LAMBDA p : p.resp = "rate"))

\* one client.post of send_discord_message and the handling of its response:
\* "ok" a success status, "rate" a 429 carrying retry_after ra, "fail" any other
\* status or a network error (raise_for_status raises into the try of the tick).
\* The while True loop puts no limit on the 429 responses it takes; posts holds
\* the first MaxRateLimited of them and more tells that there were others.
Post(resp, ra) ==
  /\ pc = "post"
  /\ resp # "rate" => ra = -1
  /\ pc' = AfterPost(resp)
  /\ wait' = IF resp = "rate" THEN SleepFor(ra) ELSE 0
  /\ LET n == Notified(send)
         p == [chan |-> send.channel_id, payload |-> send.payload,
               resp |-> resp, ra |-> ra, at |-> clock]
     IN /\ lastDelivered' = IF resp = "ok" /\ n.key \in watch
                            THEN [lastDelivered EXCEPT ![n.key] = n.st]
                            ELSE lastDelivered
        /\ result' = CASE resp = "ok" -> [result EXCEPT ![n.key] = "delivered"]
                       [] resp = "fail" -> [result EXCEPT ![n.key] = "failed"]
                       [] OTHER -> result
        /\ last' = CASE resp = "ok" -> [kind |-> "sent", key |-> n.key, st |-> n.st]
                     [] resp = "fail" -> [kind |-> "send_failed", key |-> n.key, st |-> n.st]
                     [] OTHER -> last
        /\ IF pc' = "eval"
           THEN /\ posts' = <<>>
                /\ clock' = 0
                /\ more' = FALSE
           ELSE IF resp = "rate" /\ RateLimited(posts) >= MaxRateLimited
                THEN /\ more' = TRUE
                     /\ UNCHANGED <<posts, clock>>
                ELSE /\ posts' = Append(posts, p)
                     /\ UNCHANGED <<clock, more>>
  /\ IF pc' = "eval"
     THEN /\ idx' = idx + 1
          /\ cur' = NoCur
          /\ send' = NoSend
     ELSE UNCHANGED <<idx, cur, send>>
  /\ UNCHANGED <<DISCORD_TOKEN, trackers, last_alert, rows, out, chunk_i, tick,
                 before, cls, calls, faults, gets, watch, accepted, hist>>

\* await asyncio.sleep(float(wait) + 0.1); continue
Backoff ==
  /\ pc = "backoff"
  /\ clock' = IF more THEN clock ELSE clock + wait
  /\ wait' = 0
  /\ pc' = "post"
  /\ UNCHANGED <<DISCORD_TOKEN, trackers, last_alert, rows, out, chunk_i, tick,
                 idx, cur, send, posts, more, last, tickHist, lastDelivered, watch,
                 accepted,
                 hist>>

\* the INSERT ... ON CONFLICT into last_alert and its commit, after the send
\* returned; either may raise into the except of the try
WriteState(ok) ==
  /\ pc = "write"
  /\ IF ok
     THEN /\ last_alert' = UpsertState(last_alert, cur.key, cur.st)
          /\ last' = [kind |-> "wrote", key |-> cur.key, st |-> cur.st]
          /\ faults' = faults
     ELSE /\ last' = [kind |-> "write_failed", key |-> cur.key, st |-> cur.st]
          /\ faults' = faults \cup {Fault("write", cur.key)}
          /\ UNCHANGED last_alert
  /\ pc' = "eval"
  /\ idx' = idx + 1
  /\ cur' = NoCur
  /\ send' = NoSend
  /\ clock' = 0
  /\ posts' = <<>>
  /\ more' = FALSE
  /\ UNCHANGED <<DISCORD_TOKEN, trackers, rows, out, chunk_i, tick, wait, before,
                 cls, calls, result, gets, lastDelivered, watch, accepted, hist>>

\* the for loop is exhausted: the connection closes, then the interval sleep
FinishTick ==
  /\ pc = "eval"
  /\ idx > Len(rows)
  /\ EndTick("none")
  /\ UNCHANGED <<DISCORD_TOKEN, trackers, last_alert, lastDelivered, watch, accepted>>

\* asyncio.sleep(POLL_INTERVAL) returns and the loop starts over; the locals
\* and the record of the tick that ended are dropped
Sleep ==
  /\ pc = "sleep"
  /\ pc' = "load"
  /\ rows' = <<>>
  /\ out' = EmptyMap
  /\ chunk_i' = 0
  /\ tick' = EmptyMap
  /\ idx' = 1
  /\ cur' = NoCur
  /\ send' = NoSend
  /\ wait' = 0
  /\ clock' = 0
  /\ posts' = <<>>
  /\ more' = FALSE
  /\ last' = NoEvent
  /\ before' = last_alert
  /\ cls' = NoneYet
  /\ calls' = [k \in Keys |-> 0]
  /\ result' = NoneYet
  /\ faults' = {}
  /\ gets' = <<>>
  /\ UNCHANGED <<DISCORD_TOKEN, trackers, last_alert, lastDelivered, watch, accepted, hist>>

Poller ==
  \/ \E ok \in BOOLEAN : PollerStart(ok)
  \/ \E ok \in BOOLEAN : LoadRows(ok)
  \/ FetchChunk
  \/ \E readok \in BOOLEAN : Evaluate(readok)
  \/ \E resp \in {"ok", "rate", "fail"} : \E ra \in RetryAfters : Post(resp, ra)
  \/ Backoff
  \/ \E ok \in BOOLEAN : WriteState(ok)
  \/ FinishTick
  \/ Sleep

Registration == \E t \in TrackInputs, dbok \in BOOLEAN : track(t, dbok)

Next == Poller \/ Registration

Spec == Init /\ [][Next]_vars

\* the poller alone over the one tracker of InitTrace
SpecTrace == InitTrace /\ [][Poller]_vars

\* the poller task alone over the two trackers of InitLive.  The event loop
\* resumes the task whenever what it awaits is done: a request that was
\* answered or timed out, a sleep that ran out.
SpecLive == InitLive /\ [][Poller]_vars /\ WF_vars(Poller)

\* the poller alone over the trackers of InitChunks
SpecChunks == InitChunks /\ [][Poller]_vars

----------------------------------------------------------------------------
(* What the claims speak of, stated on the rows and quotes of the tick *)

\* the tick has ended and the poller is in its interval sleep
Ended == pc = "sleep"

\* the tick went through every row: it ended with the for loop exhausted
Completed == Ended /\ rows # <<>> /\ idx > Len(rows)

\* the decision about row j has been taken in this tick
Decided(j) == j < idx \/ (j = idx /\ pc \in {"post", "backoff", "write"})

Quoted(r) == r.market \in DOMAIN tick /\ tick[r.market] > 0 /\ r.avg > 0

\* pct >= up_threshold and pct <= down_threshold, with pct = (price-avg)/avg*100
PctAbove(r) == Quoted(r) /\ (tick[r.market] - r.avg) * 100 >= r.up * r.avg
PctBelow(r) == Quoted(r) /\ (tick[r.market] - r.avg) * 100 <= r.down * r.avg

PctIn(r, s) == IF s = "above" THEN PctAbove(r) ELSE PctBelow(r)

----------------------------------------------------------------------------
\* C1: a tracker whose persisted last_state is above (below) and whose pct in
\* the tick is still >= up_threshold (<= down_threshold) gets no notification
\* in that tick and keeps its last_state, in every tick.
C1_SustainedIsSilent ==
  \A j \in 1..Len(rows) : \A s \in States :
    LET r == rows[j]
        k == KeyOf(r)
    IN (Decided(j) /\ before[k] = s /\ PctIn(r, s))
         => calls[k] = 0 /\ result[k] = "none" /\ last_alert[k] = s

C1_Witness ==
  \E j \in 1..Len(rows) : \E s \in States :
    /\ Completed
    /\ before[KeyOf(rows[j])] = s
    /\ PctIn(rows[j], s)
    /\ calls[KeyOf(rows[j])] = 0


----------------------------------------------------------------------------
\* C2: a tracker with no last_alert row whose pct in the tick is >= up_threshold
\* (<= down_threshold), the send succeeding, gets exactly one notification in
\* that tick, and the tick ends with its last_state = above (below).
C2_FirstCrossingNotifiesAndRecords ==
  \A j \in 1..Len(rows) : \A s \in States :
    LET r == rows[j]
        k == KeyOf(r)
    IN (Ended /\ Decided(j) /\ before[k] = NoState /\ PctIn(r, s)
          /\ result[k] = "delivered")
         => calls[k] = 1 /\ last_alert[k] = s

Opposite(s) == IF s = "above" THEN "below" ELSE "above"

----------------------------------------------------------------------------
\* C4: a tracker whose last_state is above and whose pct in the next tick is
\* <= down_threshold is sent a notification in that tick and, the send
\* succeeding, has last_state = below afterwards; and the same with above and
\* below exchanged.
C4_ReversalNotifiesAndRecords ==
  \A j \in 1..Len(rows) : \A s \in States :
    LET r == rows[j]
        k == KeyOf(r)
    IN (j < idx /\ before[k] = s /\ PctIn(r, Opposite(s)))
         => /\ calls[k] = 1
            /\ result[k] \in {"delivered", "failed"}
            /\ result[k] = "delivered" => last_alert[k] = Opposite(s)

----------------------------------------------------------------------------
(* Windows of consecutive ticks of a watched key *)

\* no send of the ticks i..j of window h failed
NoSendFailed(h, i, j) == \A m \in i..j : h[m].result # "failed"

\* C3: a tracker with no last_alert row that is classified above, neutral,
\* above in three consecutive ticks, every send succeeding, is notified
\* exactly twice: in the first tick, not in the second, and in the third.
C3_ReentryNotifiesAgain ==
  \A k \in watch :
    LET h == hist[k]
    IN \A i \in 1..(Len(h) - 2) :
         (/\ h[i].prev = NoState
          /\ h[i].cls = "above" /\ h[i+1].cls = "neutral" /\ h[i+2].cls = "above"
          /\ NoSendFailed(h, i, i + 2))
           => /\ h[i].result = "delivered"
              /\ h[i+1].result = "none"
              /\ h[i+2].result = "delivered"

----------------------------------------------------------------------------
\* the send of tick m of window h succeeded and its state was written
SentAndWritten(h, m) == h[m].result = "delivered" /\ h[m].state = h[m].cls

\* C5: when the send for a tracker fails, its last_state stays what it was
\* before the tick; and in every later tick in which the tracker is decided
\* with the same classification, the notification is attempted again, as long
\* as no send has succeeded with its state written in between.
C5_FailedSendIsRetried ==
  /\ \A k \in Keys : result[k] = "failed" => last_alert[k] = before[k]
  /\ \A k \in watch :
       LET h == hist[k]
       IN /\ \A i \in 1..Len(h) : h[i].result = "failed" => h[i].state = h[i].prev
          /\ \A i \in 1..Len(h) : \A j \in (i + 1)..Len(h) :
               (/\ h[i].result = "failed"
                /\ h[j].cls = h[i].cls
                /\ \A m \in (i + 1)..(j - 1) : ~SentAndWritten(h, m))
                 => h[j].result \in {"delivered", "failed"}

C5_Witness ==
  \E k \in watch :
    LET h == hist[k]
    IN /\ Len(h) = 3
       /\ h[1].result = "failed" /\ h[2].result = "failed"
       /\ h[2].cls = h[1].cls /\ h[3].cls = h[1].cls
       /\ SentAndWritten(h, 3)

----------------------------------------------------------------------------
\* C6: whenever the last_state of a key changes to s, the step is the poller's
\* write after the send, and the poller's latest event before it, in the same
\* tick, is a successfully completed send for that key with state s; no write
\* comes before the send, after a failed send, or from a registration.
C6_WriteOnlyAfterDelivery ==
  [][ \A k \in Keys :
        last_alert'[k] # last_alert[k]
          => /\ pc = "write"
             /\ last = [kind |-> "sent", key |-> k, st |-> last_alert'[k]]
             /\ result[k] = "delivered"
             /\ calls[k] = 1
             /\ \A k2 \in Keys \ {k} : last_alert'[k2] = last_alert[k2] ]_vars

C6_Witness ==
  \E k \in Keys : \E s \in States :
    /\ last = [kind |-> "wrote", key |-> k, st |-> s]
    /\ last_alert[k] = s
    /\ before[k] # s

----------------------------------------------------------------------------
\* C7: between ticks, the last_state of every key that has had a notification
\* delivered equals the state of the latest notification delivered for it,
\* whatever the sends and the store did.
C7_StateFollowsDelivery ==
  pc \in {"sleep", "load"} =>
    \A k \in watch :
      lastDelivered[k] # NoState => last_alert[k] = lastDelivered[k]

----------------------------------------------------------------------------
FetchFailed == Fault("fetch", NoKey) \in faults

\* C8: a tick whose price fetch fails sends nothing and changes no last_alert
\* row; the poller task is not ended by it but is in its interval sleep, and
\* its next step is the start of a new tick with nothing left over.
C8_FetchFailureSkipsTick ==
  /\ [](FetchFailed =>
          /\ pc = "sleep"
          /\ ENABLED Sleep
          /\ last_alert = before
          /\ \A k \in Keys : calls[k] = 0 /\ result[k] = "none" /\ cls[k] = "none")
  /\ [][ (FetchFailed /\ pc' # pc)
           => /\ pc' = "load"
              /\ rows' = <<>> /\ tick' = EmptyMap /\ faults' = {}
              /\ last_alert' = last_alert ]_vars

C8_Witness ==
  /\ FetchFailed
  /\ pc = "sleep"
  /\ \E j \in 1..Len(rows) : rows[j].avg > 0 /\ last_alert[KeyOf(rows[j])] # NoState

----------------------------------------------------------------------------
\* the tick ended without a failure of the tick as a whole
NoTickFault == \A f \in faults : f.kind = "write"

\* row r is due a notification for state s in this tick
ShouldFire(r, s) == PctIn(r, s) /\ before[KeyOf(r)] # s

\* C9: in a tick in which some tracker has no quote or has its send fail,
\* every tracker loaded in the tick is still evaluated: each one that has a
\* usable quote is classified, each one due a notification has its send
\* attempted and, the attempt succeeding, its state written, wherever it
\* stands in the rows.
C9_FailuresAreIsolated ==
  (Ended /\ NoTickFault) =>
    \A j \in 1..Len(rows) :
      LET r == rows[j]
          k == KeyOf(r)
      IN /\ Quoted(r) => cls[k] # "none"
         /\ \A s \in States :
              ShouldFire(r, s)
                => /\ calls[k] = 1
                   /\ result[k] \in {"delivered", "failed"}
                   /\ (result[k] = "delivered" /\ Fault("write", k) \notin faults)
                        => last_alert[k] = s

C9_Witness ==
  /\ Ended
  /\ NoTickFault
  /\ \E i, j \in 1..Len(rows) : \E s \in States :
       /\ i < j
       /\ result[KeyOf(rows[i])] = "failed"
       /\ ShouldFire(rows[j], s)
       /\ result[KeyOf(rows[j])] = "delivered"
       /\ last_alert[KeyOf(rows[j])] = s

----------------------------------------------------------------------------
\* seconds a 429 response asks to wait: its retry_after, when it gives one
Given(ra) == IF ra = -1 THEN 0 ELSE ra

RECURSIVE GivenTotal(_)
GivenTotal(ps) ==
  IF ps = <<>> THEN 0
  ELSE (IF Head(ps).resp = "rate" THEN Given(Head(ps).ra) ELSE 0) + GivenTotal(Tail(ps))

\* C10: in a send answered by k 429 responses and then a success (k up to
\* MaxRateLimited, so that posts holds every response of the call), every
\* attempt posts the same payload to the same channel, each retry comes at
\* least the retry_after of the preceding 429 after it, and the success is
\* reported (the call returns, the write follows) after exactly k+1 attempts
\* and a total wait of at least the sum of the retry_after values.
C10_RateLimitedSendSucceeds ==
  LET n == Len(posts)
  IN /\ \A i \in 1..n :
          posts[i].chan = posts[1].chan /\ posts[i].payload = posts[1].payload
     /\ \A i \in 2..n :
          /\ posts[i-1].resp = "rate"
          /\ posts[i].at - posts[i-1].at >= Given(posts[i-1].ra) * 10
     /\ (n > 0 /\ posts[n].resp = "ok" /\ ~more)
          => /\ pc = "write"
             /\ result[cur.key] = "delivered"
             /\ posts[n].chan = cur.key[2]
             /\ n = RateLimited(posts) + 1
             /\ clock >= GivenTotal(posts) * 10

C10_Witness ==
  /\ Len(posts) = 3
  /\ posts[1].resp = "rate" /\ posts[1].ra = 2
  /\ posts[2].resp = "rate" /\ posts[2].ra = -1
  /\ posts[3].resp = "ok"
  /\ ~more
  /\ clock >= 20
  /\ pc = "write"

----------------------------------------------------------------------------
\* an error that left the body of the loop through the outer except
TickFault == \E f \in faults : f.kind \in {"load", "fetch", "read"}

WriteFault == \E f \in faults : f.kind = "write"

\* a send call of the tick is kept in its 429 loop for good
RateLimitedForever == <>[](pc \in {"post", "backoff"})

\* C11: once the loop is entered no step ends the poller task; an error of a
\* tick (loading the trackers, the fetch, reading last_alert) puts the poller
\* into its interval sleep, from which a new tick starts; a failed write of
\* last_alert is caught where it happens and the tick goes on; and ticks start
\* infinitely often, as far as errors go: the only run in which they do not
\* is one in which a send call never leaves its 429 loop.
C11_ErrorsNeverStopTheLoop ==
  /\ [][pc' = "dead" => pc = "start"]_vars
  /\ [](TickFault => pc = "sleep")
  /\ TickFault ~> (pc = "load" /\ faults = {})
  /\ [][(WriteFault' /\ ~WriteFault) => pc' = "eval"]_vars
  /\ (<>(pc = "load")) => ([]<>(pc = "load") \/ RateLimitedForever)

C11_Witness ==
  /\ Fault("read", NoKey) \in faults
  /\ WriteFault
  /\ pc = "sleep"
  /\ ENABLED Sleep

----------------------------------------------------------------------------
\* a send call is under way: posting, sleeping after a 429, or about to write
Sending == send # NoSend \/ cur # NoCur \/ wait # 0 \/ posts # <<>>

\* the tick that is ending evaluated every row it loaded, had none, or failed
EvaluationOver == rows = <<>> \/ idx > Len(rows) \/ TickFault

\* C12: there is one poller and it is in one place: a tick starts only from
\* the poller's start or from the interval sleep that follows the previous
\* tick, and at that moment the previous tick has evaluated all its rows or
\* has failed, and no send, rate-limit wait or state write of it is pending;
\* outside a tick nothing of a tick is in progress.  Registrations may come
\* in between the steps of a tick; they start no tick.
C12_TicksNeverOverlap ==
  /\ [][ (pc' = "load" /\ pc # "load")
           => \/ pc = "start"
              \/ /\ pc = "sleep"
                 /\ EvaluationOver
                 /\ ~Sending ]_vars
  /\ [](pc \in {"sleep", "load", "start", "dead"} => ~Sending)
  /\ [](Sending => (pc \in {"post", "backoff", "write"} /\ idx <= Len(rows)
                      /\ cur.key = KeyOf(rows[idx])))
  /\ [][ (trackers' # trackers \/ accepted' # accepted)
           => UNCHANGED pollerVars ]_vars

C12_Witness ==
  /\ pc = "load"
  /\ Len(trackers) = 2
  /\ \E k \in Keys : before[k] = "above" /\ last_alert[k] = "above"
  /\ \E k \in Keys : before[k] = NoState

----------------------------------------------------------------------------
\* the store failed in this tick: the SELECT of the trackers, a SELECT of
\* last_state, or a write of last_alert
StoreFault == \E f \in faults : f.kind \in {"load", "read", "write"}

\* C13: in a tick in which the store fails, no notification is sent: no send
\* call is made and none is delivered, and the tick is over (aborted) as soon
\* as the failure has happened.
C13_StoreFailureSendsNothing ==
  StoreFault =>
    /\ \A k \in Keys : calls[k] = 0 /\ result[k] # "delivered"
    /\ pc = "sleep"

----------------------------------------------------------------------------
\* the fetch of the tick failed after an earlier chunk had been answered
ChunkFailedAfterOthers == FetchFailed /\ DOMAIN out # {}

\* C14: when a chunk request of the tick's fetch fails after other chunks were
\* answered, the quotes of the answered chunks are the tick's quotes, and the
\* trackers that have a usable quote among them are evaluated in the tick.
C14_PartialFetchIsUsed ==
  (ChunkFailedAfterOthers /\ Ended) =>
    /\ tick = out
    /\ \A j \in 1..Len(rows) :
         Usable(rows[j], out) => cls[KeyOf(rows[j])] # "none"

----------------------------------------------------------------------------
\* the GET requests of the tick's fetch that raised
FailedGets == SelectSeq(gets, LAMBDA g : ~g.ok)

\* C15: the fetch of a tick is reported failed to the tick only when 3
\* requests of it have failed; after fewer failures the fetch is tried again,
\* so a first failure does not yet end the tick.
C15_FetchIsRetried ==
  /\ FetchFailed => Len(FailedGets) = 3
  /\ (Len(FailedGets) >= 1 /\ Len(FailedGets) < 3) => pc = "fetch"

----------------------------------------------------------------------------
\* the tick's quote puts row r strictly between its thresholds
PctNeutral(r) == Quoted(r) /\ ~PctAbove(r) /\ ~PctBelow(r)

\* C16: a row the tick classifies as neutral gets no send call and keeps the
\* last_state it had when the tick began, whatever that was; every last_alert
\* row holds above or below; and a last_state only ever changes to the
\* above or below the tick classified its row as and notified.
C16_NeutralWritesNothing ==
  /\ [](\A j \in 1..Len(rows) :
          LET k == KeyOf(rows[j])
          IN (Decided(j) /\ PctNeutral(rows[j]))
               => /\ cls[k] = "neutral"
                  /\ calls[k] = 0 /\ result[k] = "none"
                  /\ last_alert[k] = before[k])
  /\ [](\A k \in Keys : last_alert[k] \in States \cup {NoState})
  /\ [][ \A k \in Keys :
           last_alert'[k] # last_alert[k]
             => /\ last_alert'[k] \in States
                /\ last_alert'[k] = cls[k]
                /\ result[k] = "delivered" ]_vars

C16_Witness ==
  \E j \in 1..Len(rows) :
    /\ Completed
    /\ PctNeutral(rows[j])
    /\ cls[KeyOf(rows[j])] = "neutral"
    /\ before[KeyOf(rows[j])] = "above"
    /\ last_alert[KeyOf(rows[j])] = "above"

----------------------------------------------------------------------------
\* row r cannot be classified in this tick: no item for its market among the
\* tick's quotes, a trade_price that is absent or not positive, or a reference
\* price that is not positive
Skipped(r) ==
  \/ r.market \notin DOMAIN tick
  \/ tick[r.market] <= 0
  \/ r.avg <= 0

\* C17: for such a row the tick computes no percentage and no classification,
\* makes no send call, and leaves the last_state of its key as it was when the
\* tick began.
C17_UnusableRowIsSkipped ==
  \A j \in 1..Len(rows) :
    LET k == KeyOf(rows[j])
    IN Skipped(rows[j])
         => /\ cls[k] = "none"
            /\ calls[k] = 0 /\ result[k] = "none"
            /\ last_alert[k] = before[k]

C17_Witness ==
  /\ Completed
  /\ \E i, j \in 1..Len(rows) :
       /\ rows[i].avg = 0
       /\ rows[i].market \in DOMAIN tick /\ tick[rows[i].market] = 105
       /\ rows[j].avg = 100
       /\ (rows[j].market \notin DOMAIN tick \/ tick[rows[j].market] = 0)
       /\ last_alert[KeyOf(rows[j])] = "above"

----------------------------------------------------------------------------
\* C18: at every moment, whatever registrations and poller steps came before,
\* no two rows of trackers have the same (market, channel_id); a key has a row
\* exactly when a registration for it was accepted, and the row's avg_price
\* and thresholds are those of the latest accepted one, with up > 0 and
\* down < 0; and no step of the poller changes the trackers table.
C18_OneTrackerPerKey ==
  /\ [](\A i, j \in 1..Len(trackers) :
          KeyOf(trackers[i]) = KeyOf(trackers[j]) => i = j)
  /\ [](\A j \in 1..Len(trackers) :
          LET r == trackers[j]
          IN /\ KeyOf(r) \in Keys
             /\ accepted[KeyOf(r)].avg = r.avg
             /\ accepted[KeyOf(r)].up = r.up
             /\ accepted[KeyOf(r)].down = r.down
             /\ r.up > 0 /\ r.down < 0)
  /\ [](\A k \in Keys :
          accepted[k] # NoReg => \E j \in 1..Len(trackers) : KeyOf(trackers[j]) = k)
  /\ [][Poller => trackers' = trackers]_vars

C18_Witness ==
  /\ Len(trackers) = 2
  /\ pc \in {"post", "backoff", "write"}
  /\ \E j \in 1..Len(rows) :
       /\ KeyOf(rows[j]) = KeyOf(trackers[j])
       /\ rows[j].avg = 100 /\ rows[j].up = 5
       /\ trackers[j].avg = 95 /\ trackers[j].up = 4

----------------------------------------------------------------------------
\* row j of the tick carries the values of the latest accepted registration
\* of its key, and that registration found the key in state s
ReRegistered(j, s) ==
  LET r == rows[j]
      a == accepted[KeyOf(r)]
  IN a.had = s /\ a.avg = r.avg /\ a.up = r.up /\ a.down = r.down

\* C19: a registration step leaves every last_alert row as it is; and for a
\* key that was re-registered while its last_state was above (below) and still
\* has that state when a tick begins, the tick, working with the new values,
\* makes no send call when it classifies the tracker as above (below), and
\* makes one only when it classifies it as the opposite band.
C19_ReRegistrationKeepsState ==
  /\ [][ (accepted' # accepted \/ trackers' # trackers)
           => last_alert' = last_alert ]_vars
  /\ [](\A j \in 1..Len(rows) : \A s \in States :
          LET k == KeyOf(rows[j])
          IN (ReRegistered(j, s) /\ before[k] = s)
               => /\ (Decided(j) /\ PctIn(rows[j], s))
                       => calls[k] = 0 /\ result[k] = "none" /\ last_alert[k] = s
                  /\ calls[k] > 0 => (cls[k] = Opposite(s) /\ PctIn(rows[j], Opposite(s))))

C19_Witness ==
  \E j \in 1..Len(rows) :
    /\ Completed
    /\ ReRegistered(j, "above")
    /\ rows[j].avg = 95
    /\ before[KeyOf(rows[j])] = "above"
    /\ rows[j].market \in DOMAIN tick
    /\ tick[rows[j].market] = 100
    /\ cls[KeyOf(rows[j])] = "above"
    /\ calls[KeyOf(rows[j])] = 0

----------------------------------------------------------------------------
\* C20: every tick that starts reaches the interval sleep, and from the
\* interval sleep the next tick starts, given that every request is answered
\* and every sleep runs out: no send call stays in its 429 loop for good.
C20_EveryTickFinishes ==
  /\ (pc = "load") ~> (pc = "sleep")
  /\ (pc = "sleep") ~> (pc = "load")

====
